---------------------------- MODULE Spec2Model ----------------------------
(***************************************************************************)
(* Model of the chat page of nigerian-laws-ai (frontend/app/page.tsx):     *)
(* the Home component's state, the readiness poller, the form handlers     *)
(* and handleSubmit, the consumer of the streamed /ask response.           *)
(*                                                                         *)
(* Text is a sequence of characters (one-character strings, and a few      *)
(* literal fragments of the source kept whole, such as "Error: ").  The    *)
(* response body is a sequence of bytes; one wire unit stands for a run of *)
(* bytes that the model never splits further ("dat", "a: ", "T=chunk",     *)
(* ...), so a read may end between any two units, inside the prefix,       *)
(* inside the JSON payload, and inside a multi-byte character.             *)
(*                                                                         *)
(* Each action is the code that runs between two suspension points of the  *)
(* single JavaScript thread.  React flushes the state set by a handler     *)
(* before the next event is dispatched, so the closure values of input and *)
(* loading read by a handler are the values of the state variables.        *)
(***************************************************************************)
EXTENDS Integers, Sequences, FiniteSets, TLC

\* ------------------------------------------------------------------ bounds
\* what the backend is asked and sends in one behaviour: each accepted
\* submission counts one, each protocol line of a response body one
MaxTraffic == 3

\* the documents that the collection raw_documents holds at most
MaxDocs == 3

\* ------------------------------------------------------------- text helpers
\* String.prototype.trim: strip leading and trailing white space
WhiteSpace == {" ", "\n"}

RECURSIVE TrimLeft(_)
TrimLeft(s) ==
    IF s # <<>> /\ Head(s) \in WhiteSpace THEN TrimLeft(Tail(s)) ELSE s

RECURSIVE TrimRight(_)
TrimRight(s) ==
    IF s # <<>> /\ s[Len(s)] \in WhiteSpace
    THEN TrimRight(SubSeq(s, 1, Len(s) - 1))
    ELSE s

Trim(s) == TrimRight(TrimLeft(s))

\* String.prototype.startsWith
StartsWith(s, p) == Len(s) >= Len(p) /\ SubSeq(s, 1, Len(p)) = p

RECURSIVE SplitFrom(_, _, _)
\* String.prototype.split(sep): cur is the piece being collected
SplitFrom(s, sep, cur) ==
    IF s = <<>> THEN <<cur>>
    ELSE IF Head(s) = sep THEN <<cur>> \o SplitFrom(Tail(s), sep, <<>>)
    ELSE SplitFrom(Tail(s), sep, Append(cur, Head(s)))

Split(s, sep) == SplitFrom(s, sep, <<>>)


\* ------------------------------------------------------- the wire encoding
\* "E" stands for a character whose UTF-8 encoding is the two bytes E1 E2;
\* every other character is one byte.  TextEncoder / the backend's encoder.
UTF8Char(c) == IF c = "E" THEN <<"E1", "E2">> ELSE <<c>>

RECURSIVE UTF8(_)
UTF8(text) == IF text = <<>> THEN <<>> ELSE UTF8Char(Head(text)) \o UTF8(Tail(text))

\* the literal prefix 'data: ', two wire units so that a read can end inside it
DataPrefix == <<"dat", "a: ">>

\* The protocol lines a backend may put on the stream: k names the shape,
\* text its text field.
EvChunk(t)   == [k |-> "chunk", text |-> t]
EvError(t)   == [k |-> "error", text |-> t]
EvBadJson    == [k |-> "badjson", text |-> <<>>]
EvNull       == [k |-> "null", text |-> <<>>]
EvPing       == [k |-> "ping", text |-> <<>>]
EvChunkNoText == [k |-> "chunknotext", text |-> <<>>]
EvErrorNoText == [k |-> "errornotext", text |-> <<>>]
EvNoPrefix(t) == [k |-> "noprefix", text |-> t]
EvBlank      == [k |-> "blank", text |-> <<>>]

\* JSON.stringify of the event object
JsonOf(e) ==
    CASE e.k \in {"chunk", "noprefix"} ->
             <<"{", "T=chunk", "C[">> \o UTF8(e.text) \o <<"]", "}">>
      [] e.k = "error" -> <<"{", "T=error", "E[">> \o UTF8(e.text) \o <<"]", "}">>
      [] e.k = "badjson" -> <<"{", "T=chunk", "?">>
      [] e.k = "null" -> <<"null">>
      [] e.k = "ping" -> <<"{", "T=ping", "}">>
      [] e.k = "chunknotext" -> <<"{", "T=chunk", "C#", "}">>
      [] e.k = "errornotext" -> <<"{", "T=error", "}">>
      [] OTHER -> <<>>

\* one line of the response body, with its terminating newline
EncodeLine(e) ==
    CASE e.k = "blank" -> <<" ", "\n">>
      [] e.k = "noprefix" -> JsonOf(e) \o <<"\n">>
      [] OTHER -> DataPrefix \o JsonOf(e) \o <<"\n">>

RECURSIVE EncodeBody(_)
EncodeBody(events) ==
    IF events = <<>> THEN <<>> ELSE EncodeLine(Head(events)) \o EncodeBody(Tail(events))

\* ------------------------------------------------------------- TextDecoder
RECURSIVE DecodeBytes(_)
\* TextDecoder.decode(value, {stream: true}) on the pending bytes followed by
\* value: an incomplete character at the end is kept pending, an invalid byte
\* decodes to U+FFFD.
DecodeBytes(bytes) ==
    IF bytes = <<>> THEN [text |-> <<>>, pending |-> <<>>]
    ELSE IF Head(bytes) = "E1"
    THEN IF Len(bytes) = 1 THEN [text |-> <<>>, pending |-> bytes]
         ELSE IF bytes[2] = "E2"
         THEN LET r == DecodeBytes(Tail(Tail(bytes)))
              IN  [text |-> <<"E">> \o r.text, pending |-> r.pending]
         ELSE LET r == DecodeBytes(Tail(bytes))
              IN  [text |-> <<"U+FFFD">> \o r.text, pending |-> r.pending]
    ELSE IF Head(bytes) = "E2"
    THEN LET r == DecodeBytes(Tail(bytes))
         IN  [text |-> <<"U+FFFD">> \o r.text, pending |-> r.pending]
    ELSE LET r == DecodeBytes(Tail(bytes))
         IN  [text |-> <<Head(bytes)>> \o r.text, pending |-> r.pending]

\* -------------------------------------------------------------- JSON.parse
NoText == [isString |-> FALSE, val |-> <<>>]
TextOf(v) == [isString |-> TRUE, val |-> v]

SyntaxError == [tag |-> "SyntaxError", type |-> "undefined",
                content |-> NoText, error |-> NoText]
JsonNull    == [tag |-> "null", type |-> "undefined",
                content |-> NoText, error |-> NoText]
EmptyObject == [tag |-> "object", type |-> "undefined",
                content |-> NoText, error |-> NoText]

RECURSIVE StringEnd(_, _)
\* index of the unit closing the string that starts at i, 0 if it never closes
StringEnd(s, i) ==
    IF i > Len(s) THEN 0
    ELSE IF s[i] = "]" THEN i
    ELSE StringEnd(s, i + 1)

RECURSIVE ParseMembers(_, _, _)
\* the members of an object from unit i on; a later member replaces an
\* earlier one of the same name
ParseMembers(s, i, obj) ==
    IF i > Len(s) THEN SyntaxError
    ELSE CASE s[i] = "}" -> IF i = Len(s) THEN obj ELSE SyntaxError
           [] s[i] = "T=chunk" -> ParseMembers(s, i + 1, [obj EXCEPT !.type = "chunk"])
           [] s[i] = "T=error" -> ParseMembers(s, i + 1, [obj EXCEPT !.type = "error"])
           [] s[i] = "T=ping"  -> ParseMembers(s, i + 1, [obj EXCEPT !.type = "ping"])
           [] s[i] = "C#" -> ParseMembers(s, i + 1, [obj EXCEPT !.content = NoText])
           [] s[i] \in {"C[", "E["} ->
                LET j == StringEnd(s, i + 1)
                    v == TextOf(SubSeq(s, i + 1, j - 1))
                IN  IF j = 0 THEN SyntaxError
                    ELSE IF s[i] = "C["
                    THEN ParseMembers(s, j + 1, [obj EXCEPT !.content = v])
                    ELSE ParseMembers(s, j + 1, [obj EXCEPT !.error = v])
           [] OTHER -> SyntaxError

\* JSON.parse(jsonString): the value, or SyntaxError when it throws
JsonParse(jsonString) ==
    LET s == Trim(jsonString)
    IN  IF s = <<>> THEN SyntaxError
        ELSE IF s = <<"null">> THEN JsonNull
        ELSE IF Head(s) = "{" THEN ParseMembers(s, 2, EmptyObject)
        ELSE SyntaxError


\* ---------------------------------------------------------------- messages
UserMessage(c) == [role |-> "user", content |-> c, isError |-> FALSE]
AssistantMessage(c, err) == [role |-> "assistant", content |-> c, isError |-> err]

\* the test that never finds an assistant message at the end
HasOpenLastNever(prev) == FALSE

HasOpenLast(prev) == prev # <<>> /\ prev[Len(prev)].role = "assistant"
AllButLast(prev) == SubSeq(prev, 1, Len(prev) - 1)
LastMessage(prev) == prev[Len(prev)]

\* the update that writes the accumulator into every assistant message
SetChunkContentAll(prev, acc) ==
    [k \in DOMAIN prev |->
        IF prev[k].role = "assistant" THEN [prev[k] EXCEPT !.content = acc] ELSE prev[k]]

\* the update that concatenates onto the displayed content
SetChunkContentAppend(prev, acc) ==
    IF HasOpenLast(prev)
    THEN Append(AllButLast(prev), [LastMessage(prev) EXCEPT !.content = @ \o acc])
    ELSE prev

\* the state update of a chunk event
SetChunkContent(prev, acc) ==
    IF HasOpenLast(prev)
    THEN Append(AllButLast(prev), [LastMessage(prev) EXCEPT !.content = acc])
    ELSE prev

\* the state update of an error event
SetBackendError(prev, acc, err) ==
    IF HasOpenLast(prev)
    THEN Append(AllButLast(prev),
                [LastMessage(prev) EXCEPT !.content = acc \o <<"\n", "\n", "Error: ">> \o err,
                                          !.isError = TRUE])
    ELSE Append(prev, AssistantMessage(<<"Error: ">> \o err, TRUE))

\* the catch block without isError: true
SetCatchErrorNoFlag(prev, message) ==
    LET text == <<"Error: Could not stream response. Details: ">> \o message
    IN  IF HasOpenLast(prev)
        THEN Append(AllButLast(prev), [LastMessage(prev) EXCEPT !.content = text])
        ELSE Append(prev, AssistantMessage(text, FALSE))

\* the catch block appending its message whatever the last message is
SetCatchErrorAppend(prev, message) ==
    Append(prev, AssistantMessage(<<"Error: Could not stream response. Details: ">>
                                      \o message, TRUE))

\* the state update of the catch block
SetCatchError(prev, message) ==
    LET text == <<"Error: Could not stream response. Details: ">> \o message
    IN  IF HasOpenLast(prev)
        THEN Append(AllButLast(prev),
                    [LastMessage(prev) EXCEPT !.content = text, !.isError = TRUE])
        ELSE Append(prev, AssistantMessage(text, TRUE))

RECURSIVE DeferredUpdates(_, _, _)
\* The updaters that the events of one read have queued, run in order when
\* the loop over the lines is through: each reads the variable
\* accumulatedContent as it is then, acc.
DeferredUpdates(prev, events, acc) ==
    IF events = <<>> THEN prev
    ELSE DeferredUpdates(IF Head(events).k = "chunk"
                         THEN SetChunkContent(prev, acc)
                         ELSE SetBackendError(prev, acc, Head(events).text),
                         Tail(events), acc)

\* ------------------------------------------------------ the loop over lines
\* st: accumulatedContent (acc), the message log (msgs), whether the loop was
\* left by break after reader.cancel() (stopped), and the events applied so
\* far (applied, a history of the run, read by no code).
AppliedChunk(t) == [k |-> "chunk", text |-> t]
AppliedError(t) == [k |-> "error", text |-> t]

\* the body of the for loop without the typeof checks on content and error
ProcessLineNoTypeCheck(st, line) ==
    IF StartsWith(line, DataPrefix)
    THEN LET parsed == JsonParse(SubSeq(line, Len(DataPrefix) + 1, Len(line)))
             text(f) == IF f.isString THEN f.val ELSE <<"undefined">>
         IN  IF parsed.tag = "SyntaxError" THEN st
             ELSE IF parsed.tag = "object"
             THEN IF parsed.type = "chunk"
                  THEN LET acc == st.acc \o text(parsed.content)
                       IN  [st EXCEPT !.acc = acc,
                                      !.msgs = SetChunkContent(st.msgs, acc),
                                      !.applied = Append(st.applied, AppliedChunk(text(parsed.content)))]
                  ELSE IF parsed.type = "error"
                  THEN [st EXCEPT !.msgs = SetBackendError(st.msgs, st.acc, text(parsed.error)),
                                  !.stopped = TRUE,
                                  !.applied = Append(st.applied, AppliedError(text(parsed.error)))]
                  ELSE st
             ELSE st
    ELSE st

\* the body of the for loop without the test line.startsWith('data: '): the
\* prefix is removed where there is one, and the line is parsed in any case
ProcessLineNoPrefixCheck(st, line) ==
    LET jsonString == IF StartsWith(line, DataPrefix)
                      THEN SubSeq(line, Len(DataPrefix) + 1, Len(line))
                      ELSE line
        parsed == JsonParse(jsonString)
    IN  IF parsed.tag = "SyntaxError" THEN st
        ELSE IF parsed.tag = "object"
        THEN IF parsed.type = "chunk" /\ parsed.content.isString
             THEN LET acc == st.acc \o parsed.content.val
                  IN  [st EXCEPT !.acc = acc,
                                 !.msgs = SetChunkContent(st.msgs, acc),
                                 !.applied = Append(st.applied, AppliedChunk(parsed.content.val))]
             ELSE IF parsed.type = "error" /\ parsed.error.isString
             THEN [st EXCEPT !.msgs = SetBackendError(st.msgs, st.acc, parsed.error.val),
                             !.stopped = TRUE,
                             !.applied = Append(st.applied, AppliedError(parsed.error.val))]
             ELSE st
        ELSE st

\* the body of the for loop for one line
ProcessLine(st, line) ==
    IF StartsWith(line, DataPrefix)
    THEN LET parsed == JsonParse(SubSeq(line, Len(DataPrefix) + 1, Len(line)))
         IN  IF parsed.tag = "SyntaxError" THEN st
             ELSE IF parsed.tag = "object"
             THEN IF parsed.type = "chunk" /\ parsed.content.isString
                  THEN LET acc == st.acc \o parsed.content.val
                       IN  [st EXCEPT !.acc = acc,
                                      !.msgs = SetChunkContent(st.msgs, acc),
                                      !.applied = Append(st.applied, AppliedChunk(parsed.content.val))]
                  ELSE IF parsed.type = "error" /\ parsed.error.isString
                  THEN [st EXCEPT !.msgs = SetBackendError(st.msgs, st.acc, parsed.error.val),
                                  !.stopped = TRUE,
                                  !.applied = Append(st.applied, AppliedError(parsed.error.val))]
                  ELSE st
             ELSE st
    ELSE st

RECURSIVE ProcessLinesNoBreak(_, _)
\* the loop without the break after reader.cancel()
ProcessLinesNoBreak(st, lines) ==
    IF lines = <<>> THEN st
    ELSE ProcessLinesNoBreak(ProcessLine(st, Head(lines)), Tail(lines))

RECURSIVE ProcessLines(_, _)
\* for (const line of lines) ..., left by break on an error event
ProcessLines(st, lines) ==
    IF lines = <<>> \/ st.stopped THEN st
    ELSE ProcessLines(ProcessLine(st, Head(lines)), Tail(lines))

\* chunk.split('\n').filter(line => line.trim() !== '')
LinesOf(chunk) == SelectSeq(Split(chunk, "\n"), LAMBDA line : Trim(line) # <<>>)


\* ------------------------------------------------------------- environment
\* process.env as the README documents it: only NEXT_PUBLIC_BACKEND_URL is set
Env(name) == IF name = "NEXT_PUBLIC_BACKEND_URL" THEN "http://localhost:8000"
             ELSE "undefined"

\* what the user may type into the input field
Inputs == {<<>>, <<" ">>, <<"q", " ">>}

\* `${suggestion.title} ${suggestion.subtitle}` of a suggestion card
suggestionCards == {<<"How do I obtain", " ", "a Certificate of Occupancy?">>}

\* The protocol lines the backend is taken to send: well-formed events, and
\* lines the consumer has to skip.  A response body has at most one line of
\* the second kind.
WellFormed == {EvChunk(<<"a">>), EvChunk(<<"E">>), EvError(<<"x">>)}
Skipped == {EvBadJson, EvNull, EvPing, EvChunkNoText, EvErrorNoText,
            EvNoPrefix(<<"b">>), EvBlank}
EventPool == WellFormed \cup Skipped

EventSeqs(max) ==
    {es \in UNION {[1..n -> EventPool] : n \in 0..max} :
        \A i, j \in DOMAIN es : es[i] \in Skipped /\ es[j] \in Skipped => i = j}

\* descriptions of the exceptions fetch and reader.read() may raise
FetchErrors == {<<"Failed to fetch">>}
ReadErrors == {<<"network error">>}

\* `${response.status} ${response.statusText}`
StatusText(ok) == IF ok THEN <<"200 OK">> ELSE <<"500 Internal Server Error">>

\* --------------------------------------------------------------- the state
VARIABLES
    messages,       \* useState<Message[]>([])
    input,          \* useState('')
    loading,        \* useState(false)
    isServerReady,  \* useState(false)
    health,         \* checkServerStatus: "fetching", "timer" or "stopped"
    handlers,       \* the calls of handleSubmit that passed the guard, in order
    requests,       \* the POST /ask requests issued so far
    traffic,        \* submissions accepted and protocol lines sent so far
    lastOp,         \* the step of handleSubmit taken last
    backend,        \* what GET /health answers: "starting" or "ready"
    docs,           \* the number of documents in the collection raw_documents
    mongoUp,        \* whether MongoDB answers
    entry           \* the run of the container entrypoint script

\* the state of the page, and that of the backend container's entrypoint
page == <<messages, input, loading, isServerReady, health, handlers, requests,
          traffic, lastOp, backend>>
container == <<docs, mongoUp, entry>>

vars == <<messages, input, loading, isServerReady, health, handlers, requests,
          traffic, lastOp, backend, docs, mongoUp, entry>>

\* One accepted call of handleSubmit.  pc: "fetch" (awaiting fetch), "read"
\* (awaiting reader.read()), "exit" (returned).  body: the bytes of the
\* response not yet delivered; cancelled: reader.cancel() was called.
\* History, read by no code: sent (the lines of the body), applied (the
\* events applied), aligned (every read so far ended at a line end), outcome,
\* readIssued, readAfterCancel, charSplit (a read ended inside a multi-byte
\* character), setsTrue and setsFalse (calls of setLoading).
NewHandler(query) ==
    [pc |-> "fetch", userQuery |-> query, accumulatedContent |-> <<>>,
     decoder |-> <<>>, body |-> <<>>, cancelled |-> FALSE,
     sent |-> <<>>, applied |-> <<>>, aligned |-> TRUE, outcome |-> "none",
     readIssued |-> FALSE, readAfterCancel |-> FALSE, charSplit |-> FALSE,
     setsTrue |-> 1, setsFalse |-> 0]

\* a call that has returned keeps its place in handlers; its history is
\* dropped when a later call is accepted
Forget(h) == IF h.pc = "exit" THEN [NewHandler(<<>>) EXCEPT !.pc = "exit"] ELSE h

\* The entrypoint before its first command.  status: the exit status of
\* check_data.py, -1 before it has run.  History, read by no code: raised
\* (check_data caught an exception), docsAtCheck (the documents that the
\* collection held when the check ran, -1 before), pipelineRuns.
EntryStart ==
    [pc |-> "start", status |-> -1, raised |-> FALSE, docsAtCheck |-> -1,
     pipelineRuns |-> 0]

\* the page as constructed
PageInit ==
    /\ messages = <<>>
    /\ input = <<>>
    /\ loading = FALSE
    /\ isServerReady = FALSE
    /\ health = "fetching"
    /\ handlers = <<>>
    /\ requests = <<>>
    /\ traffic = 0
    /\ lastOp = "mount"
    /\ backend = "starting"

\* The page runs in the browser; the container of the backend is another
\* process, followed by EntrypointSpec, and does not move here.
Init ==
    /\ PageInit
    /\ docs = 0
    /\ mongoUp = TRUE
    /\ entry = EntryStart

\* ------------------------------------------------------ readiness poller
\* fetch(`${BackendUrl}/health`)
HealthRequest ==
    [url |-> <<Env("NEXT_PUBLIC_BACKEND_URL"), "/health">>, method |-> "GET"]

\* The backend starts up, or goes down again.  Its state is followed until
\* the page has seen it ready; nothing asks for it afterwards.
BackendChanges ==
    /\ ~isServerReady
    /\ backend' = IF backend = "ready" THEN "starting" ELSE "ready"
    /\ UNCHANGED <<container, messages, input, loading, isServerReady, health,
                   handlers, requests, traffic, lastOp>>

\* the check that sets the flag and goes on polling: no return after
\* setIsServerReady(true)
HealthReadyNoReturn ==
    /\ health = "fetching"
    /\ backend = "ready"
    /\ isServerReady' = TRUE
    /\ health' = "timer"
    /\ UNCHANGED <<container, backend, messages, input, loading, handlers, requests, traffic, lastOp>>

\* response.ok && data.status === 'ready'
HealthReady ==
    /\ health = "fetching"
    /\ backend = "ready"
    /\ isServerReady' = TRUE
    /\ health' = "stopped"
    /\ UNCHANGED <<container, backend, messages, input, loading, handlers, requests, traffic, lastOp>>

\* the failing check that schedules no retry
HealthNotReadyNoRetry ==
    /\ health = "fetching"
    /\ backend # "ready"
    /\ health' = "stopped"
    /\ UNCHANGED <<container, backend, messages, input, loading, isServerReady, handlers, requests,
                   traffic, lastOp>>

\* any other answer, or an exception: setTimeout(checkServerStatus, 2000)
HealthNotReady ==
    /\ health = "fetching"
    /\ backend # "ready"
    /\ health' = "timer"
    /\ UNCHANGED <<container, backend, messages, input, loading, isServerReady, handlers, requests,
                   traffic, lastOp>>

\* the timer fires: checkServerStatus runs again
HealthTimer ==
    /\ health = "timer"
    /\ health' = "fetching"
    /\ UNCHANGED <<container, backend, messages, input, loading, isServerReady, handlers, requests,
                   traffic, lastOp>>

\* ------------------------------------------------------------------ the form
\* the form rendered whatever the readiness flag
FormRenderedAlways == TRUE

\* the form is rendered only once the backend is ready
FormRendered == isServerReady

\* onChange of the input field, which is disabled while loading
HandleChange(v) ==
    /\ FormRendered
    /\ ~loading
    /\ input' = v
    /\ UNCHANGED <<container, backend, messages, loading, isServerReady, health, handlers, requests,
                   traffic, lastOp>>

\* the suggestion cards are shown while the log is empty
HandleSuggestionClick(fullQuestion) ==
    /\ FormRendered
    /\ messages = <<>>
    /\ input' = fullQuestion
    /\ UNCHANGED <<container, backend, messages, loading, isServerReady, health, handlers, requests,
                   traffic, lastOp>>

\* handleSubmit without its guard
RejectsNothing(inp, ld) == FALSE

\* the guard without trim(): if (!input || loading) return;
RejectsNoTrim(inp, ld) == inp = <<>> \/ ld

\* if (!input.trim() || loading) return;
Rejects(inp, ld) == Trim(inp) = <<>> \/ ld

\* the request sending the trimmed input
AskRequestTrimmed(userQuery) ==
    [url |-> <<Env("NEXT_PUBLIC_API_URL"), "/ask">>, method |-> "POST",
     question |-> Trim(userQuery)]

\* the /ask request: its URL, method and JSON body
AskRequest(userQuery) ==
    [url |-> <<Env("NEXT_PUBLIC_API_URL"), "/ask">>, method |-> "POST",
     question |-> userQuery]

\* the submission that starts the log afresh
WithNewTurnFresh(prev, userQuery) ==
    <<UserMessage(userQuery), AssistantMessage(<<>>, FALSE)>>

\* the two messages appended in the other order
WithNewTurnSwapped(prev, userQuery) ==
    Append(Append(prev, AssistantMessage(<<>>, FALSE)), UserMessage(userQuery))

\* the messages appended on acceptance
WithNewTurn(prev, userQuery) ==
    Append(Append(prev, UserMessage(userQuery)), AssistantMessage(<<>>, FALSE))

\* handleSubmit up to its first suspension, the call of fetch included
HandleSubmit ==
    /\ FormRendered
    /\ IF Rejects(input, loading)
       THEN /\ lastOp' = "submitRejected"
            /\ UNCHANGED <<container, backend, messages, input, loading, isServerReady, health,
                           handlers, requests, traffic>>
       ELSE /\ traffic < MaxTraffic
            /\ traffic' = traffic + 1
            /\ input' = <<>>
            /\ loading' = TRUE
            /\ messages' = WithNewTurn(messages, input)
            /\ requests' = Append(requests, AskRequest(input))
            /\ handlers' = Append([i \in DOMAIN handlers |-> Forget(handlers[i])],
                                  NewHandler(input))
            /\ lastOp' = "submitAccepted"
            /\ UNCHANGED <<container, backend, isServerReady, health>>


\* ------------------------------------------------- handleSubmit, continued
\* no finally block: the flag is left as it is
FinallyMissing(st) == st

\* the flag reset both at the end of the handler and in finally
FinallyTwice(st) == [loading |-> FALSE, setsFalse |-> st.setsFalse + 2]

\* finally { setLoading(false) }: st is the loading flag with the number of
\* times this call has reset it
Finally(st) == [loading |-> FALSE, setsFalse |-> st.setsFalse + 1]

\* the handler record and the flag after the call has left through finally
Exited(h, outcome) ==
    [h EXCEPT !.pc = "exit", !.outcome = outcome, !.body = <<>>, !.decoder = <<>>,
              !.setsFalse = Finally([loading |-> loading, setsFalse |-> @]).setsFalse]

LoadingAfter(h) == Finally([loading |-> loading, setsFalse |-> h.setsFalse]).loading

\* fetch resolves with !response.ok || !response.body: the throw, the catch
\* block and finally
FetchFails(i, ok, hasBody) ==
    /\ handlers[i].pc = "fetch"
    /\ ~ok \/ ~hasBody
    /\ messages' = SetCatchError(messages, <<"Failed to fetch response: ">> \o StatusText(ok))
    /\ handlers' = [handlers EXCEPT ![i] = Exited(@, "httpError")]
    /\ loading' = LoadingAfter(handlers[i])
    /\ lastOp' = "fetchFails"
    /\ UNCHANGED <<container, backend, input, isServerReady, health, requests, traffic>>

\* fetch raises: the catch block and finally
FetchReject(i, err) ==
    /\ handlers[i].pc = "fetch"
    /\ messages' = SetCatchError(messages, err)
    /\ handlers' = [handlers EXCEPT ![i] = Exited(@, "exception")]
    /\ loading' = LoadingAfter(handlers[i])
    /\ lastOp' = "fetchReject"
    /\ UNCHANGED <<container, backend, input, isServerReady, health, requests, traffic>>

\* fetch resolves with a body carrying the lines of events: getReader, the
\* TextDecoder, and the first reader.read()
FetchStreams(i, events) ==
    /\ handlers[i].pc = "fetch"
    /\ traffic' = traffic + Len(events)
    /\ handlers' = [handlers EXCEPT ![i] =
                      [@ EXCEPT !.pc = "read", !.body = EncodeBody(events),
                                !.sent = events, !.readIssued = TRUE]]
    /\ lastOp' = "fetchStreams"
    /\ UNCHANGED <<container, backend, messages, input, loading, isServerReady, health, requests>>

\* one pass of the while loop on a read of n bytes: decode, split, the loop
\* over the lines, and the next reader.read()
ReadState(h, n) ==
    LET value == SubSeq(h.body, 1, n)
        d == DecodeBytes(h.decoder \o value)
        st == ProcessLines([acc |-> h.accumulatedContent, msgs |-> messages,
                            stopped |-> FALSE, applied |-> h.applied],
                           LinesOf(d.text))
    IN  [st |-> st, pending |-> d.pending, value |-> value]

ReadValue(i, n) ==
    /\ handlers[i].pc = "read"
    /\ ~handlers[i].cancelled
    /\ n \in 1..Len(handlers[i].body)
    /\ LET h == handlers[i]
           r == ReadState(h, n)
       IN  /\ messages' = r.st.msgs
           /\ handlers' = [handlers EXCEPT ![i] =
                 [h EXCEPT !.accumulatedContent = r.st.acc,
                           !.decoder = r.pending,
                           !.body = SubSeq(h.body, n + 1, Len(h.body)),
                           !.cancelled = r.st.stopped,
                           !.applied = r.st.applied,
                           !.aligned = h.aligned /\ r.value[n] = "\n",
                           !.outcome = IF r.st.stopped THEN "errorEvent" ELSE @,
                           !.readAfterCancel = r.st.stopped,
                           !.charSplit = @ \/ r.pending # <<>>]]
    /\ lastOp' = "readValue"
    /\ UNCHANGED <<container, backend, input, loading, isServerReady, health, requests, traffic>>

\* done without the break: the loop decodes nothing and reads again
ReadDoneNoBreak(i) ==
    /\ handlers[i].pc = "read"
    /\ handlers[i].cancelled \/ handlers[i].body = <<>>
    /\ lastOp' = "readDone"
    /\ UNCHANGED <<container, backend, messages, input, loading, isServerReady, health, handlers,
                   requests, traffic>>

\* reader.read() resolves with done: the stream has ended or was cancelled
ReadDone(i) ==
    /\ handlers[i].pc = "read"
    /\ handlers[i].cancelled \/ handlers[i].body = <<>>
    /\ handlers' = [handlers EXCEPT ![i] =
                      Exited(@, IF @.outcome = "errorEvent" THEN @.outcome ELSE "completed")]
    /\ loading' = LoadingAfter(handlers[i])
    /\ lastOp' = "readDone"
    /\ UNCHANGED <<container, backend, messages, input, isServerReady, health, requests, traffic>>

\* reader.read() raises: the catch block and finally
ReadReject(i, err) ==
    /\ handlers[i].pc = "read"
    /\ ~handlers[i].cancelled
    /\ messages' = SetCatchError(messages, err)
    /\ handlers' = [handlers EXCEPT ![i] = Exited(@, "exception")]
    /\ loading' = LoadingAfter(handlers[i])
    /\ lastOp' = "readReject"
    /\ UNCHANGED <<container, backend, input, isServerReady, health, requests, traffic>>

\* ------------------------------------------------------- the specification
Next ==
    \/ BackendChanges
    \/ HealthReady
    \/ HealthNotReady
    \/ HealthTimer
    \/ \E v \in Inputs : HandleChange(v)
    \/ \E s \in suggestionCards : HandleSuggestionClick(s)
    \/ HandleSubmit
    \/ \E i \in DOMAIN handlers, ok \in BOOLEAN, hasBody \in BOOLEAN :
            FetchFails(i, ok, hasBody)
    \/ \E i \in DOMAIN handlers, err \in FetchErrors : FetchReject(i, err)
    \/ \E i \in DOMAIN handlers, events \in EventSeqs(MaxTraffic - traffic) :
            FetchStreams(i, events)
    \/ \E i \in DOMAIN handlers : \E n \in 1..Len(handlers[i].body) : ReadValue(i, n)
    \/ \E i \in DOMAIN handlers : ReadDone(i)
    \/ \E i \in DOMAIN handlers, err \in ReadErrors : ReadReject(i, err)

Spec == Init /\ [][Next]_vars

\* a step of an accepted call of handleSubmit after a suspension
AsyncStep ==
    \E i \in DOMAIN handlers :
        \/ /\ handlers[i].pc = "read"
           /\ \/ ReadDone(i)
              \/ \E err \in ReadErrors : ReadReject(i, err)
              \/ \E n \in 1..Len(handlers[i].body) : ReadValue(i, n)
        \/ /\ handlers[i].pc = "fetch"
           /\ \/ \E ok \in BOOLEAN, hasBody \in BOOLEAN : FetchFails(i, ok, hasBody)
              \/ \E err \in FetchErrors : FetchReject(i, err)
              \/ \E events \in EventSeqs(MaxTraffic - traffic) : FetchStreams(i, events)

\* Every POST /ask is answered and every read settles: the event loop runs
\* the continuation of handleSubmit once it is ready.
FairSpec == Spec /\ WF_vars(AsyncStep)

\* Every GET /health is answered and every timer fires.
PollerFairSpec ==
    /\ Spec
    /\ WF_vars(HealthReady \/ HealthNotReady)
    /\ WF_vars(HealthTimer)


\* ------------------------------------------- the container entrypoint script
\* MongoDB becomes unreachable, or reachable again, while the script runs
MongoChanges ==
    /\ entry.pc \notin {"done", "aborted"}
    /\ mongoUp' = ~mongoUp
    /\ UNCHANGED <<page, docs, entry>>

\* cat <<EOF > /app/check_data.py ... EOF, and the exports
WriteCheckScript ==
    /\ entry.pc = "start"
    /\ entry' = [entry EXCEPT !.pc = "check"]
    /\ UNCHANGED <<page, docs, mongoUp>>

\* check_data(collection): the count of the documents, or 0 when the
\* connection or the count raises
check_data(up, held) ==
    IF up THEN [count |-> held, raised |-> FALSE]
    ELSE [count |-> 0, raised |-> TRUE]

\* the exit status of check_data.py: exit(1) if doc_count == 0, else exit(0)
ExitStatus(r) == IF r.count = 0 THEN 1 ELSE 0

\* python /app/check_data.py
RunCheck ==
    /\ entry.pc = "check"
    /\ LET r == check_data(mongoUp, docs)
       IN  entry' = [entry EXCEPT !.pc = "if", !.status = ExitStatus(r),
                                  !.raised = r.raised, !.docsAtCheck = docs]
    /\ UNCHANGED <<page, docs, mongoUp>>

\* if python /app/check_data.py; then: echo "Data already exists. ..."
SkipPipeline ==
    /\ entry.pc = "if"
    /\ entry.status = 0
    /\ entry' = [entry EXCEPT !.pc = "rm"]
    /\ UNCHANGED <<page, docs, mongoUp>>

\* else: python -m data-preparation.run is started
StartPipeline ==
    /\ entry.pc = "if"
    /\ entry.status # 0
    /\ entry' = [entry EXCEPT !.pc = "pipeline", !.pipelineRuns = @ + 1]
    /\ UNCHANGED <<page, docs, mongoUp>>

\* the ingestion job stores one more document
PipelineInserts ==
    /\ entry.pc = "pipeline"
    /\ mongoUp
    /\ docs < MaxDocs
    /\ docs' = docs + 1
    /\ UNCHANGED <<page, mongoUp, entry>>

\* the ingestion job exits with status 0
PipelineFinished ==
    /\ entry.pc = "pipeline"
    /\ entry' = [entry EXCEPT !.pc = "rm"]
    /\ UNCHANGED <<page, docs, mongoUp>>

\* the ingestion job exits with another status: set -e ends the script
PipelineFails ==
    /\ entry.pc = "pipeline"
    /\ entry' = [entry EXCEPT !.pc = "aborted"]
    /\ UNCHANGED <<page, docs, mongoUp>>

\* rm /app/check_data.py
RemoveCheckScript ==
    /\ entry.pc = "rm"
    /\ entry' = [entry EXCEPT !.pc = "done"]
    /\ UNCHANGED <<page, docs, mongoUp>>

EntrypointInit ==
    /\ PageInit
    /\ docs \in 0..MaxDocs
    /\ mongoUp \in BOOLEAN
    /\ entry = EntryStart

EntrypointNext ==
    \/ MongoChanges
    \/ WriteCheckScript
    \/ RunCheck
    \/ SkipPipeline
    \/ StartPipeline
    \/ PipelineInserts
    \/ PipelineFinished
    \/ PipelineFails
    \/ RemoveCheckScript

EntrypointSpec == EntrypointInit /\ [][EntrypointNext]_vars

\* ------------------------------------------------------ notions of the claims
\* handlers whose history is still kept
Known == {i \in DOMAIN handlers : handlers[i].pc # "exit" \/ handlers[i].outcome # "none"}

InFlight == {i \in DOMAIN handlers : handlers[i].pc # "exit"}

\* the two messages of submission i
UserOf(i) == messages[2 * i - 1]
AssistantOf(i) == messages[2 * i]
HasTurn(i) == 2 * i <= Len(messages)

RECURSIVE ChunkText(_)
\* the concatenation of the contents of the chunk events of a sequence
ChunkText(events) ==
    IF events = <<>> THEN <<>>
    ELSE (IF Head(events).k = "chunk" THEN Head(events).text ELSE <<>>)
         \o ChunkText(Tail(events))

RECURSIVE Effective(_)
\* the events of a body that a consumer applies: the well-formed chunk events
\* up to the first well-formed error event, and that error event
Effective(events) ==
    IF events = <<>> THEN <<>>
    ELSE IF Head(events).k = "error" THEN <<Head(events)>>
    ELSE IF Head(events).k = "chunk" THEN <<Head(events)>> \o Effective(Tail(events))
    ELSE Effective(Tail(events))

\* the assistant message after the events applied
MessageAfter(applied) ==
    IF applied # <<>> /\ applied[Len(applied)].k = "error"
    THEN AssistantMessage(ChunkText(applied) \o <<"\n", "\n", "Error: ">>
                              \o applied[Len(applied)].text, TRUE)
    ELSE AssistantMessage(ChunkText(applied), FALSE)

ExitOps == {"fetchFails", "fetchReject", "readDone", "readReject"}

\* ---------------------------------------------------------------------- C1
\* C1: for a body made of chunk events c1..cn only, whatever the split of its
\* bytes into reads, the assistant message of a submission whose stream ended
\* normally has content c1 + ... + cn.
C1_ChunkingIndependence ==
    \A i \in Known :
        LET h == handlers[i]
        IN  (/\ h.outcome = "completed"
             /\ HasTurn(i)
             /\ \A j \in DOMAIN h.sent : h.sent[j].k = "chunk")
            => AssistantOf(i).content = ChunkText(h.sent)

\* ---------------------------------------------------------------------- C2
\* C2: once an error event X is applied after chunk events c1..ck, it is the
\* last event applied, and from then on the assistant message of the
\* submission is c1 + ... + ck + "\n\nError: " + X with isError set.
C2_ErrorEventIsFinal ==
    \A i \in Known :
        LET h == handlers[i]
        IN  \A k \in DOMAIN h.applied :
                h.applied[k].k = "error"
                => /\ k = Len(h.applied)
                   /\ HasTurn(i)
                   /\ AssistantOf(i) =
                        AssistantMessage(ChunkText(SubSeq(h.applied, 1, k - 1))
                                             \o <<"\n", "\n", "Error: ">>
                                             \o h.applied[k].text, TRUE)

\* a submission has ended whose body was a chunk followed by an error event
C2_Witness ==
    \E i \in Known :
        /\ handlers[i].pc = "exit"
        /\ handlers[i].sent = <<EvChunk(<<"a">>), EvError(<<"x">>)>>
        /\ handlers[i].applied = <<AppliedChunk(<<"a">>), AppliedError(<<"x">>)>>
        /\ AssistantOf(i) = AssistantMessage(<<"a", "\n", "\n", "Error: ", "x">>, TRUE)

\* ---------------------------------------------------------------------- C3
\* C3 as stated: after any call of submit has returned or finished, rejected
\* calls included, loading is false.
C3_BusyFalseAfterAnySubmit ==
    lastOp \in ExitOps \cup {"submitRejected"} => ~loading

\* C3 amended: after a submission has completed or ended in an error loading
\* is false; after a rejected call loading is what it was, true exactly when
\* another submission is still in flight.
C3_BusyAfterSubmit ==
    /\ lastOp \in ExitOps => ~loading
    /\ lastOp = "submitRejected" => (loading <=> InFlight # {})

\* a call was rejected while a submission was streaming
C3_Witness ==
    /\ lastOp = "submitRejected"
    /\ loading
    /\ \E i \in InFlight : handlers[i].pc = "read"

\* ---------------------------------------------------------------------- C4
\* C4: every accepted submission sets loading to true once, loading stays
\* true while it is in flight, and on each exit path it is reset to false
\* exactly once.
C4_BusySetOnceResetOnce ==
    \A i \in Known :
        LET h == handlers[i]
        IN  /\ h.setsTrue = 1
            /\ h.pc # "exit" => loading /\ h.setsFalse = 0
            /\ h.pc = "exit" => h.setsFalse = 1 /\ h.outcome # "none"

\* a submission has left through the cancel of an error event
C4_Witness ==
    \E i \in Known :
        /\ handlers[i].pc = "exit"
        /\ handlers[i].outcome = "errorEvent"
        /\ handlers[i].setsFalse = 1
        /\ ~loading

\* ---------------------------------------------------------------------- C5
\* C5: at most one submission is in flight, so at most one /ask request and
\* one reader are active; loading is true exactly while one is in flight, and
\* no step taken while loading is true starts a submission or issues a request.
C5_SingleFlight ==
    /\ [](Cardinality(InFlight) <= 1 /\ (loading <=> InFlight # {}))
    /\ [][loading => /\ requests' = requests
                     /\ Len(handlers') = Len(handlers)
                     /\ Len(messages') = Len(messages)]_vars

\* a call of submit was made, and rejected, while the request was awaited
C5_Witness ==
    /\ lastOp = "submitRejected"
    /\ loading
    /\ \E i \in InFlight : handlers[i].pc = "fetch"


\* ---------------------------------------------------------------------- C6
\* C6: a call of submit with an empty or whitespace-only input changes
\* neither the log, the input, loading, the readiness flag nor the calls in
\* flight, and issues no request.
C6_BlankSubmitIsNoOp ==
    [][(Trim(input) = <<>> /\ HandleSubmit)
       => UNCHANGED <<messages, input, loading, isServerReady, health, handlers,
                      requests>>]_vars

\* a call with a whitespace-only input has returned
C6_Witness ==
    /\ lastOp = "submitRejected"
    /\ input = <<" ">>
    /\ ~loading
    /\ requests = <<>>

\* ---------------------------------------------------------------------- C7
\* C7: an accepted submit(query) appends (user, query) and (assistant, "") at
\* the end of the log, sets loading, clears the input and issues one POST /ask
\* with question = query; no other step issues a request, so there is always
\* exactly one request per accepted submission.
C7_AcceptedSubmit ==
    /\ [][(HandleSubmit /\ Trim(input) # <<>> /\ ~loading)
          => /\ messages' = messages \o <<UserMessage(input), AssistantMessage(<<>>, FALSE)>>
             /\ loading'
             /\ input' = <<>>
             /\ Len(requests') = Len(requests) + 1
             /\ SubSeq(requests', 1, Len(requests)) = requests
             /\ requests'[Len(requests')].method = "POST"
             /\ requests'[Len(requests')].question = input]_vars
    /\ [][requests' # requests => lastOp' = "submitAccepted"]_vars
    /\ [](Len(requests) = Len(handlers))

\* a second submission was accepted after the first had ended
C7_Witness ==
    /\ lastOp = "submitAccepted"
    /\ Len(messages) = 4
    /\ messages[3] = UserMessage(<<"q", " ">>)
    /\ messages[4] = AssistantMessage(<<>>, FALSE)
    /\ Len(requests) = 2
    /\ loading

\* ---------------------------------------------------------------------- C8
\* C8: a response with a non-success status or without a body ends the
\* submission before any read: the assistant message is the error message of
\* the catch block with the status in it and isError set, the user message
\* is kept, and loading is false.
C8_BadResponse ==
    \A i \in Known :
        LET h == handlers[i]
        IN  h.outcome = "httpError"
            => /\ h.pc = "exit"
               /\ ~h.readIssued
               /\ HasTurn(i)
               /\ UserOf(i) = UserMessage(h.userQuery)
               /\ \E ok \in BOOLEAN :
                    AssistantOf(i) =
                        AssistantMessage(<<"Error: Could not stream response. Details: ",
                                           "Failed to fetch response: ">> \o StatusText(ok),
                                         TRUE)
               /\ ~loading

\* a submission has ended on a 500 response
C8_Witness ==
    \E i \in Known :
        /\ handlers[i].outcome = "httpError"
        /\ AssistantOf(i).content = <<"Error: Could not stream response. Details: ",
                                      "Failed to fetch response: ",
                                      "500 Internal Server Error">>
        /\ lastOp = "fetchFails"

\* ---------------------------------------------------------------------- C9
\* C9: an exception of fetch or of a read, before or after chunks were
\* applied, replaces the content of the assistant message of the submission
\* by the error message with the exception's description, sets isError, and
\* leaves the log two messages per accepted submission.
C9_ExceptionCaught ==
    /\ Len(messages) = 2 * Len(handlers)
    /\ \A i \in Known :
         handlers[i].outcome = "exception"
         => /\ handlers[i].pc = "exit"
            /\ \E err \in FetchErrors \cup ReadErrors :
                 AssistantOf(i) =
                     AssistantMessage(<<"Error: Could not stream response. Details: ">>
                                          \o err, TRUE)

\* a read raised after a chunk had been applied
C9_Witness ==
    \E i \in Known :
        /\ handlers[i].outcome = "exception"
        /\ handlers[i].applied = <<AppliedChunk(<<"a">>)>>
        /\ AssistantOf(i).content = <<"Error: Could not stream response. Details: ",
                                      "network error">>

\* --------------------------------------------------------------------- C10
\* the number of lines in a sequence of bytes
LinesIn(bytes) == Len(SelectSeq(bytes, LAMBDA b : b = "\n"))

\* the lines of the body delivered so far
Delivered(h) == SubSeq(h.sent, 1, Len(h.sent) - LinesIn(h.body))

\* C10: a 'data: ' line that is malformed JSON, not an object, or of an
\* unrecognized shape changes nothing and does not end the consumption: when
\* the reads deliver whole lines, the events applied are the well-formed
\* events of the lines delivered, up to the first error event, and after a
\* normal end or an error event the assistant message is what these events
\* give.
C10_SkippedLines ==
    \A i \in Known :
        LET h == handlers[i]
        IN  /\ (h.pc = "read" /\ h.aligned /\ ~h.cancelled)
               => h.applied = Effective(Delivered(h))
            /\ (h.aligned /\ h.outcome \in {"completed", "errorEvent"})
               => /\ h.applied = Effective(h.sent)
                  /\ HasTurn(i)
                  /\ h.pc = "exit" => AssistantOf(i) = MessageAfter(Effective(h.sent))

\* a stream of malformed JSON followed by a chunk has ended normally
C10_Witness ==
    \E i \in Known :
        /\ handlers[i].outcome = "completed"
        /\ handlers[i].aligned
        /\ handlers[i].sent = <<EvBadJson, EvChunk(<<"a">>)>>
        /\ AssistantOf(i) = AssistantMessage(<<"a">>, FALSE)


\* the lines of the read that takes the next n bytes of handler h's body
ReadLines(h, n) == LinesOf(DecodeBytes(h.decoder \o SubSeq(h.body, 1, n)).text)

\* the step is a read of handler i that delivers bytes and goes on reading
IsRead(i) ==
    /\ i \in DOMAIN handlers'
    /\ handlers[i].pc = "read" /\ ~handlers[i].cancelled
    /\ handlers'[i].pc = "read"
    /\ Len(handlers'[i].body) < Len(handlers[i].body)

\* the number of bytes that a read step of handler i delivers
BytesRead(i) == Len(handlers[i].body) - Len(handlers'[i].body)

Contains(text, c) == \E k \in DOMAIN text : text[k] = c

\* C11: a line that does not begin with "data: " never changes the messages,
\* the accumulator or the busy flag.  The text "b", which the backend sends
\* only in a line without the prefix, is in no message and in no accumulator,
\* however the bytes are split over the reads; and a read whose lines all
\* lack the prefix leaves the messages, the accumulator, the busy flag and the
\* stream as they were.
C11_UnprefixedLineIgnored ==
    /\ [](/\ \A k \in DOMAIN messages : ~Contains(messages[k].content, "b")
          /\ \A i \in DOMAIN handlers : ~Contains(handlers[i].accumulatedContent, "b"))
    /\ [][\A i \in DOMAIN handlers :
            (/\ IsRead(i)
             /\ \A k \in DOMAIN ReadLines(handlers[i], BytesRead(i)) :
                    ~StartsWith(ReadLines(handlers[i], BytesRead(i))[k], DataPrefix))
            => /\ messages' = messages
               /\ loading' = loading
               /\ handlers'[i].accumulatedContent = handlers[i].accumulatedContent
               /\ handlers'[i].applied = handlers[i].applied
               /\ ~handlers'[i].cancelled]_vars

\* a line without the prefix that carries a whole chunk event was read in one
\* piece after a chunk, and the message holds the chunk alone
C11_Witness ==
    \E i \in InFlight :
        /\ handlers[i].sent = <<EvChunk(<<"a">>), EvNoPrefix(<<"b">>)>>
        /\ handlers[i].aligned
        /\ handlers[i].pc = "read"
        /\ handlers[i].body = <<>>
        /\ AssistantOf(i) = AssistantMessage(<<"a">>, FALSE)

\* C12: every accepted submission returns to Idle.  The busy flag is true
\* exactly while a call of handleSubmit is in flight, so it does not stay true
\* after the stream has ended, been cancelled or thrown; and when every
\* request is answered and every read settles, a busy flag that is true
\* becomes false again.
C12_ReturnsToIdle ==
    /\ [](loading <=> InFlight # {})
    /\ (loading ~> ~loading)

\* a submission went through Streaming, its stream was cancelled on an error
\* event, and it is back at Idle
C12_Witness ==
    \E i \in Known :
        /\ handlers[i].pc = "exit"
        /\ handlers[i].outcome = "errorEvent"
        /\ handlers[i].cancelled
        /\ InFlight = {}
        /\ ~loading

\* C13: once a health check is answered with success and status "ready", the
\* readiness flag is true and stays true in every later state, and the poller
\* has stopped for good: no health request is in flight and no timer pending.
C13_ReadyIsPermanent ==
    /\ [](isServerReady <=> health = "stopped")
    /\ [][(health = "fetching" /\ backend = "ready" /\ health' # health)
            => isServerReady' /\ health' = "stopped"]_vars
    /\ [][isServerReady => isServerReady']_vars
    /\ [][health = "stopped" => health' = "stopped"]_vars

\* the flag is still true after a later submission has run to its end
C13_Witness ==
    /\ isServerReady
    /\ health = "stopped"
    /\ \E i \in Known : handlers[i].pc = "exit" /\ handlers[i].outcome = "completed"

\* C14: a health check that fails leaves one timer pending and changes
\* nothing else, the timer starts one further check, and no count of the
\* failures is kept; so, when every check is answered and every timer fires,
\* if the backend is ready from some point on then the readiness flag
\* eventually becomes true.
C14_RetryUntilReady ==
    /\ [][(health = "fetching" /\ backend # "ready" /\ health' # health)
            => /\ health' = "timer"
               /\ UNCHANGED <<messages, input, loading, isServerReady, handlers,
                              requests, traffic, lastOp, backend>>]_vars
    /\ [][(health = "timer" /\ health' # health)
            => /\ health' = "fetching"
               /\ UNCHANGED <<messages, input, loading, isServerReady, handlers,
                              requests, traffic, lastOp, backend>>]_vars
    /\ (<>[](backend = "ready") => <>isServerReady)

\* a check has failed and its timer is pending, and the backend has become
\* ready since
C14_Witness ==
    /\ health = "timer"
    /\ backend = "ready"
    /\ ~isServerReady

\* C15: while the readiness flag is false no submission is accepted: the
\* message log is empty, no /ask request has been issued, no call of
\* handleSubmit has passed its guard, and the input and the busy flag are as
\* constructed.
C15_GatedByReadiness ==
    ~isServerReady =>
        /\ messages = <<>>
        /\ requests = <<>>
        /\ handlers = <<>>
        /\ input = <<>>
        /\ ~loading

\* health checks have failed, the backend is not ready and the page shows
\* the loading screen: nothing has been submitted
C15_Witness ==
    /\ ~isServerReady
    /\ health = "timer"
    /\ backend = "starting"
    /\ ~FormRendered
    /\ requests = <<>>

\* C16: with the environment of the README, every /ask request goes to the
\* base URL that the health poller uses.
C16_SameBaseUrl ==
    \A k \in DOMAIN requests : requests[k].url[1] = HealthRequest.url[1]

\* C17: when a read has ended inside a multi-byte character of a chunk
\* event's content, the message of the completed submission still holds the
\* contents of all the chunk events sent, with the character intact.
C17_SplitCharacterKept ==
    \A i \in Known :
        LET h == handlers[i]
        IN  (/\ h.pc = "exit"
             /\ h.outcome = "completed"
             /\ h.charSplit
             /\ \A k \in DOMAIN h.sent : h.sent[k].k = "chunk")
            => AssistantOf(i) = AssistantMessage(ChunkText(h.sent), FALSE)

\* the assistant messages that still receive chunks: those of the calls of
\* handleSubmit in flight whose reader was not cancelled
OpenMessages == {2 * i : i \in {j \in InFlight : ~handlers[j].cancelled}}

\* C18: at most one assistant message is open, and while it is open it is the
\* last element of the message log; a step changes no message but the one of
\* the submission in flight, and removes none.
C18_OneOpenMessageLast ==
    /\ [](/\ Cardinality(InFlight) <= 1
          /\ Cardinality(OpenMessages) <= 1
          /\ \A i \in InFlight :
                /\ Len(messages) = 2 * i
                /\ UserOf(i) = UserMessage(handlers[i].userQuery)
                /\ AssistantOf(i).role = "assistant")
    /\ [][/\ Len(messages') >= Len(messages)
           /\ \A k \in DOMAIN messages :
                 messages'[k] # messages[k]
                 => /\ k = Len(messages)
                    /\ Len(messages') = Len(messages)
                    /\ \E i \in InFlight : k = 2 * i]_vars

\* the second submission is streaming: its assistant message is the fourth
\* and last of the log and holds the chunk applied, the first turn is closed
C18_Witness ==
    /\ Len(messages) = 4
    /\ InFlight = {2}
    /\ OpenMessages = {4}
    /\ handlers[2].applied = <<AppliedChunk(<<"a">>)>>
    /\ messages[4] = AssistantMessage(<<"a">>, FALSE)

\* the events that a read step of handler i applies
NewlyApplied(i) ==
    SubSeq(handlers'[i].applied, Len(handlers[i].applied) + 1, Len(handlers'[i].applied))

\* C19: while a submission is in flight and no error event or exception has
\* occurred, its assistant message holds the accumulator, which is the
\* concatenation of the contents of the chunk events applied so far, and is
\* not flagged; a read that applies chunk events extends the content by a
\* suffix; and the log after a read is the same when the updates of its
\* events are applied only after the loop over its lines, each reading the
\* accumulator as it is then.
C19_ContentIsAccumulator ==
    /\ [](\A i \in InFlight :
            ~handlers[i].cancelled
            => /\ AssistantOf(i) = AssistantMessage(handlers[i].accumulatedContent, FALSE)
               /\ handlers[i].accumulatedContent = ChunkText(handlers[i].applied))
    /\ [][\A i \in DOMAIN handlers :
            IsRead(i)
            => /\ messages' = DeferredUpdates(messages, NewlyApplied(i),
                                              handlers'[i].accumulatedContent)
               /\ ~handlers'[i].cancelled
                  => /\ StartsWith(messages'[2 * i].content, messages[2 * i].content)
                     /\ messages'[2 * i].content
                          = messages[2 * i].content \o ChunkText(NewlyApplied(i))]_vars

\* two chunk events have been applied, the second by a read that delivered
\* both of its own or the second alone, and the message holds both contents
C19_Witness ==
    \E i \in InFlight :
        /\ handlers[i].pc = "read"
        /\ ~handlers[i].cancelled
        /\ handlers[i].applied = <<AppliedChunk(<<"a">>), AppliedChunk(<<"E">>)>>
        /\ handlers[i].accumulatedContent = <<"a", "E">>
        /\ AssistantOf(i) = AssistantMessage(<<"a", "E">>, FALSE)

\* C20: after an error event has been handled the reader is cancelled, the
\* call is no longer waiting for a read, and it has issued no read since the
\* cancel.
C20_NoReadAfterCancel ==
    \A i \in Known :
        handlers[i].cancelled
        => /\ handlers[i].pc # "read"
           /\ ~handlers[i].readAfterCancel

\* C21: the message log is append-only.  A step never shortens it and never
\* changes a message other than the last; it changes the last message only
\* in place, and only when that is the assistant message of the call in
\* flight whose reader is not cancelled; and it appends only on an accepted
\* submission, the user message and the empty assistant message, with every
\* earlier message kept.
C21_AppendOnlyLog ==
    [][/\ Len(messages') >= Len(messages)
       /\ \A k \in 1..(Len(messages) - 1) : messages'[k] = messages[k]
       /\ (messages # <<>> /\ messages'[Len(messages)] # messages[Len(messages)])
            => /\ Len(messages') = Len(messages)
               /\ messages[Len(messages)].role = "assistant"
               /\ messages'[Len(messages)].role = "assistant"
               /\ \E i \in InFlight : 2 * i = Len(messages) /\ ~handlers[i].cancelled
       /\ Len(messages') > Len(messages)
            => /\ InFlight = {}
               /\ lastOp' = "submitAccepted"
               /\ \E q \in Inputs \cup suggestionCards :
                     messages' = messages \o <<UserMessage(q), AssistantMessage(<<>>, FALSE)>>]_vars

\* the first submission ended in an error and its two messages are as they
\* were then, while the message of the second has taken a chunk
C21_Witness ==
    /\ Len(messages) = 4
    /\ messages[2].isError
    /\ messages[2].content = <<"Error: Could not stream response. Details: ", "Failed to fetch">>
    /\ messages[4] = AssistantMessage(<<"a">>, FALSE)
    /\ InFlight = {2}

\* C22: the entrypoint runs the ingestion pipeline only when the collection
\* is empty: if the pipeline has been started, the check had counted the
\* documents without an exception and the collection held none.
C22_PipelineOnlyWhenEmpty ==
    entry.pipelineRuns > 0 => ~entry.raised /\ entry.docsAtCheck = 0

\* C23: the message log alternates user, assistant, ... from a user message
\* on and is twice as long as the number of accepted submissions; while a
\* call is in flight the last message is an assistant message, so that no
\* update of an error event or of a caught exception takes the branch that
\* appends a message.
C23_AlternatingLog ==
    /\ Len(messages) = 2 * Len(requests)
    /\ Len(handlers) = Len(requests)
    /\ \A k \in DOMAIN messages :
          messages[k].role = IF k % 2 = 1 THEN "user" ELSE "assistant"
    /\ \A i \in DOMAIN requests : messages[2 * i - 1].content = requests[i].question
    /\ InFlight # {} => messages # <<>> /\ messages[Len(messages)].role = "assistant"

\* a caught exception in the first submission and an error event in the
\* second have both replaced the assistant message of their turn
C23_Witness ==
    /\ Len(messages) = 4
    /\ Len(requests) = 2
    /\ messages[2] = AssistantMessage(<<"Error: Could not stream response. Details: ",
                                        "network error">>, TRUE)
    /\ messages[4] = AssistantMessage(<<"\n", "\n", "Error: ", "x">>, TRUE)

\* C24: while no submission is in flight (busy is false) a step changes the
\* log only by accepting a submit, which keeps every message there was; and
\* a message whose isError is true is still there with isError true after
\* every step, be it a chunk event, an error event, an exception or a
\* submission.
C24_SettledMessagesStable ==
    [][/\ (~loading /\ messages' # messages)
            => /\ lastOp' = "submitAccepted"
               /\ loading'
               /\ Len(messages') = Len(messages) + 2
               /\ SubSeq(messages', 1, Len(messages)) = messages
       /\ \A k \in DOMAIN messages :
             messages[k].isError => k \in DOMAIN messages' /\ messages'[k].isError]_vars

\* the first submission ended with an error event; a second one has run to
\* its end since and the flagged message is as it was
C24_Witness ==
    /\ ~loading
    /\ InFlight = {}
    /\ Len(messages) = 4
    /\ messages[2] = AssistantMessage(<<"\n", "\n", "Error: ", "x">>, TRUE)
    /\ messages[4] = AssistantMessage(<<>>, FALSE)
    /\ \E i \in Known : i = 2 /\ handlers[i].outcome = "completed"
====================================================================
